---- MODULE Spec2Model ----
(***************************************************************************)
(* A model of summarize_evaluations.py: the filename parser, the horizon   *)
(* filter, and main() with its three branches (national table, state      *)
(* table, baseline comparison).                                            *)
(*                                                                         *)
(* Representation.                                                         *)
(*  - A path is [dir, tokens]: the sub-directory under evaluations_dir and  *)
(*    the basename with '.csv' removed, split on '_'.                       *)
(*  - A calendar date is its position in DateStr (consecutive days), so     *)
(*    date subtraction is integer subtraction and ISO-string order is       *)
(*    integer order.                                                        *)
(*  - A possibly-missing number (NaN / None) is <<>> or <<v>>.              *)
(*  - Fractional ranks are held doubled (rank 1.5 is 3).                    *)
(*  - Python exceptions are the `err` field of a result record ("" = none). *)
(***************************************************************************)
EXTENDS Integers, Sequences, FiniteSets, TLC

VARIABLES
    pc,                      \* position in main, or "call"/"returned" for a direct call
    eval_date, weeks_ahead, out_dir,      \* main's arguments (<<>> is None)
    fs,                      \* the evaluations tree: path -> file content
    io,                      \* file-system operations performed so far, in order
    error,                   \* the exception that ended the run ("" while running)
    us_errs_fnames, col_to_data_us, df_all_us, ranks_us,
    states_abs_errs_fnames, states_sq_errs_fnames,
    col_to_data_states, df_all_states, ranks_states,
    projections_fnames, proj_i, col_to_data,
    call, ret                \* a direct call of one of the two helper functions

vars == << pc, eval_date, weeks_ahead, out_dir, fs, io, error,
           us_errs_fnames, col_to_data_us, df_all_us, ranks_us,
           states_abs_errs_fnames, states_sq_errs_fnames,
           col_to_data_states, df_all_states, ranks_states,
           projections_fnames, proj_i, col_to_data, call, ret >>

-----------------------------------------------------------------------------
(* Bounds of the model *)

MaxDay == 12        \* dates used in drawn file names: DateStr[1..MaxDay]
MaxFiles == 3       \* longest file list drawn for the horizon filter
MaxWeeks == 1       \* largest weeks_ahead drawn for the horizon filter
MaxCols == 7        \* most files of one family drawn for the wide tables
RichCols == 2       \* the first RichCols files draw their contents freely, the rest share one
MaxStates == 3      \* most state rows drawn for a projections file

-----------------------------------------------------------------------------
(* Generic helpers *)

None == << >>
Some(v) == << v >>
IsNone(c) == c = << >>
Abs(x) == IF x < 0 THEN -x ELSE x
Min2(a, b) == IF a < b THEN a ELSE b

RECURSIVE SumSeq(_)
SumSeq(s) == IF s = << >> THEN 0 ELSE Head(s) + SumSeq(Tail(s))

\* lexicographic order on integer sequences (Python's order on the strings
\* they stand for)
RECURSIVE LexLess(_, _)
LexLess(a, b) ==
    IF a = << >> THEN b # << >>
    ELSE IF b = << >> THEN FALSE
    ELSE IF Head(a) # Head(b) THEN Head(a) < Head(b)
    ELSE LexLess(Tail(a), Tail(b))

\* sorted(K) of a set of integer sequences
RECURSIVE SortLex(_)
SortLex(K) ==
    IF K = {} THEN << >>
    ELSE LET m == CHOOSE x \in K : \A y \in K \ {x} : LexLess(x, y)
         IN  << m >> \o SortLex(K \ {m})

-----------------------------------------------------------------------------
(* Dates and file names *)

DateStr == << "2020-11-01", "2020-11-02", "2020-11-03", "2020-11-04",
              "2020-11-05", "2020-11-06", "2020-11-07", "2020-11-08",
              "2020-11-09", "2020-11-10", "2020-11-11", "2020-11-12",
              "2020-11-13", "2020-11-14", "2020-11-15", "2020-11-16",
              "2020-11-17", "2020-11-18", "2020-11-19", "2020-11-20",
              "2020-11-21", "2020-11-22", "2020-11-23", "2020-11-24",
              "2020-11-25", "2020-11-26", "2020-11-27", "2020-11-28" >>

Words == << "abs", "errs", "projections", "sq", "states", "us", "x" >>

Ok(v) == [err |-> "", val |-> v]
Raise(e) == [err |-> e, val |-> << >>]

\* datetime.strptime(date_str, '%Y-%m-%d').date(): ValueError unless the
\* string is a date
str_to_date(date_str) ==
    IF \E d \in 1..Len(DateStr) : DateStr[d] = date_str
    THEN Ok(CHOOSE d \in 1..Len(DateStr) : DateStr[d] = date_str)
    ELSE Raise("ValueError")

\* basename.split('_')[k] with Python's 0-based k: IndexError past the end
Token(tokens, k) ==
    IF k + 1 <= Len(tokens) THEN Ok(tokens[k + 1]) ELSE Raise("IndexError")

\* str_to_date(basename.split('_')[k])
DateToken(tokens, k) ==
    IF Token(tokens, k).err # "" THEN Token(tokens, k)
    ELSE str_to_date(Token(tokens, k).val)

\* the two statements of a layout: proj from token k, eval from token k+1;
\* the first exception raised is the outcome
Layout(tokens, k) ==
    LET p == DateToken(tokens, k)
        e == DateToken(tokens, k + 1)
    IN  IF p.err # "" THEN p
        ELSE IF e.err # "" THEN e
        ELSE Ok([proj_date |-> p.val, eval_date |-> e.val])

\* (mutation: the assertion written with >=)
DateOrderOkOrEqual(proj_date, ev_date) == ev_date >= proj_date
\* the condition of `assert eval_date > proj_date`
DateOrderOk(proj_date, ev_date) == ev_date > proj_date

get_dates_from_fname(fname) ==
    LET a == Layout(fname.tokens, 0)
        r == IF a.err = "ValueError" THEN Layout(fname.tokens, 1) ELSE a
    IN  IF r.err # "" THEN r
        ELSE IF ~DateOrderOk(r.val.proj_date, r.val.eval_date)
             THEN Raise("AssertionError")
        ELSE r

max_days_tolerance == 3

\* (mutation: the comparison written with <)
WithinToleranceStrict(days_ahead, w) ==
    Abs(days_ahead - 7 * w) < max_days_tolerance
\* abs(days_ahead - 7*weeks_ahead) <= max_days_tolerance
WithinTolerance(days_ahead, w) ==
    Abs(days_ahead - 7 * w) <= max_days_tolerance

RECURSIVE filter_fnames_by_weeks_ahead(_, _)
\* the loop, first file first; an exception of get_dates_from_fname ends it
filter_fnames_by_weeks_ahead(fnames, w) ==
    IF fnames = << >> THEN Ok(<< >>)
    ELSE LET d == get_dates_from_fname(Head(fnames))
             rest == filter_fnames_by_weeks_ahead(Tail(fnames), w)
         IN  IF d.err # "" THEN d
             ELSE IF rest.err # "" THEN rest
             ELSE IF WithinTolerance(d.val.eval_date - d.val.proj_date, w)
                  THEN Ok(<< Head(fnames) >> \o rest.val)
                  ELSE rest

-----------------------------------------------------------------------------
(* Python truthiness of main's arguments *)

\* eval_date is None or a date object (always true); out_dir is None or a
\* non-empty string; both are held as <<>> or <<v>>
TruthyObj(x) == x # None
\* weeks_ahead is None or an int: 0 is false
TruthyInt(x) == x # None /\ x[1] # 0

-----------------------------------------------------------------------------
(* Wide tables (lines 86-108 and 143-169) *)

\* the model names that occur as row labels, in Python string order
ModelOrder == << "A", "B", "C" >>
Models == { ModelOrder[i] : i \in 1..Len(ModelOrder) }

\* column label f'{kind}_{proj_date}_{eval_date}'; its string order is the
\* order of (kind, proj_date, eval_date) because dates print as ISO strings
KindKey(kind) ==
    CASE kind = "mean_abs_error" -> 1
      [] kind = "mean_sq_abs_error" -> 2
      [] kind = "perc_error" -> 3
Label(kind, d) == [kind |-> kind, proj_date |-> d.proj_date, eval_date |-> d.eval_date]
LabelKey(l) == << KindKey(l.kind), l.proj_date, l.eval_date >>

\* d[k] = v on a Python dict held as a sequence of [key, value] in insertion
\* order: an existing key keeps its position
DictSet(d, k, v) ==
    IF \E i \in 1..Len(d) : d[i].key = k
    THEN [i \in 1..Len(d) |-> IF d[i].key = k THEN [key |-> k, value |-> v] ELSE d[i]]
    ELSE Append(d, [key |-> k, value |-> v])

\* df['perc_error'].str.rstrip('%').astype('float') / 100: a cell "p%" of
\* the file becomes p/100; table values of the national table are held in
\* units of 1/100, a missing cell stays missing
PercToFloat(series) == [m \in DOMAIN series |-> series[m]]

\* pd.DataFrame(col_to_data): columns in insertion order, index the sorted
\* union of the series' indexes, a model absent from a series is missing
DataFrame(d) ==
    LET present == UNION { DOMAIN d[i].value : i \in 1..Len(d) }
    IN  [ index   |-> SelectSeq(ModelOrder, LAMBDA m : m \in present),
          columns |-> [i \in 1..Len(d) |-> d[i].key],
          val     |-> [c \in { d[i].key : i \in 1..Len(d) } |->
                        LET s == (CHOOSE i \in 1..Len(d) : d[i].key = c)
                        IN  [m \in present |->
                              IF m \in DOMAIN d[s].value THEN d[s].value[m] ELSE None]] ]

ColSet(df) == { df.columns[i] : i \in 1..Len(df.columns) }
RowSet(df) == { df.index[i] : i \in 1..Len(df.index) }

\* (mutation: dropna omitted)
dropna_nothing(df) == df
\* df.dropna(how='all'): drop the rows missing from every column
dropna_all(df) ==
    [df EXCEPT !.index =
        SelectSeq(df.index, LAMBDA m : \E c \in ColSet(df) : ~IsNone(df.val[c][m]))]

\* df.reindex(sorted(df.columns), axis=1)
reindex_sorted_columns(df) ==
    LET keys == SortLex({ LabelKey(c) : c \in ColSet(df) })
    IN  [df EXCEPT !.columns =
            [i \in 1..Len(keys) |-> CHOOSE c \in ColSet(df) : LabelKey(c) = keys[i]]]

\* lines 94-96 / 155-157
BuildTable(d) == reindex_sorted_columns(dropna_all(DataFrame(d)))

\* df.abs().rank(): per column, the average of the positions the value takes
\* among the non-missing |values| sorted ascending (doubled); missing stays
\* missing
AbsRank2(df, c, m) ==
    IF IsNone(df.val[c][m]) THEN None
    ELSE LET v == Abs(df.val[c][m][1])
             obs == { x \in RowSet(df) : ~IsNone(df.val[c][x]) }
             less == Cardinality({ x \in obs : Abs(df.val[c][x][1]) < v })
             eq == Cardinality({ x \in obs : Abs(df.val[c][x][1]) = v })
         IN  \* positions less+1 .. less+eq; twice their average
             Some((less + 1) + (less + eq))

\* (mutation: the fill value without the +1)
MaxRankNoPlusOne(df, c) ==
    LET obs == { AbsRank2(df, c, m)[1] : m \in { x \in RowSet(df) : ~IsNone(df.val[c][x]) } }
    IN  IF obs = {} THEN None
        ELSE Some(CHOOSE r \in obs : \A q \in obs : q <= r)
\* df.abs().rank().max()+1, per column (doubled: +2); NaN for a column with
\* no value
MaxRank(df, c) ==
    LET obs == { AbsRank2(df, c, m)[1] : m \in { x \in RowSet(df) : ~IsNone(df.val[c][x]) } }
    IN  IF obs = {} THEN None
        ELSE Some((CHOOSE r \in obs : \A q \in obs : q <= r) + 2)

\* df.abs().rank().fillna(max_rank): per column label
FilledRanks(df) ==
    [c \in ColSet(df) |-> [m \in RowSet(df) |->
        IF IsNone(AbsRank2(df, c, m)) THEN MaxRank(df, c) ELSE AbsRank2(df, c, m)]]

\* [c for c in df.columns if kind in c]; 'mean_abs_error' is not a substring
\* of 'mean_sq_abs_error...'
ColsForRanking(df, kind) == SelectSeq(df.columns, LAMBDA c : c.kind = kind)

RankWindow == 6

\* (mutation: cols[:6] in place of cols[-6:])
RankingWindowFirst(cols, w) ==
    IF TruthyInt(w) THEN cols
    ELSE SubSeq(cols, 1, Min2(Len(cols), RankWindow))
\* lines 102-106: cols[:] if weeks_ahead else cols[-6:]
RankingWindow(cols, w) ==
    IF TruthyInt(w) THEN cols
    ELSE SubSeq(cols, Len(cols) - Min2(Len(cols), RankWindow) + 1, Len(cols))

\* [window].mean(axis=1) of one row: NaN ranks are skipped; the mean is
\* sum/cnt and NaN when cnt = 0
MeanRank(ranks, window, m) ==
    LET used == SelectSeq(window, LAMBDA c : ~IsNone(ranks[c][m]))
    IN  [ sum |-> SumSeq([i \in 1..Len(used) |-> ranks[used[i]][m][1]]),
          cnt |-> Len(used) ]

\* a <= b on means, NaN last (sort_values: ascending, na_position='last')
MeanLeq(a, b) ==
    IF b.cnt = 0 THEN TRUE
    ELSE IF a.cnt = 0 THEN FALSE
    ELSE a.sum * b.cnt <= b.sum * a.cnt

Perms(s) ==
    { p \in [1..Len(s) -> { s[i] : i \in 1..Len(s) }] :
        \A i, j \in 1..Len(s) : i # j => p[i] # p[j] }

\* .mean(axis=1).sort_values().index: the default sort is not stable, so
\* every order of tied rows is a possible outcome
SortedOrders(df, ranks, window) ==
    { p \in Perms(df.index) :
        \A i \in 1..(Len(p) - 1) :
            MeanLeq(MeanRank(ranks, window, p[i]), MeanRank(ranks, window, p[i + 1])) }


-----------------------------------------------------------------------------
(* File selection (lines 76-84, 127-141, 188-196) *)

\* Python string order of a token: digits sort before letters
TokKey(t) ==
    IF \E d \in 1..Len(DateStr) : DateStr[d] = t
    THEN CHOOSE d \in 1..Len(DateStr) : DateStr[d] = t
    ELSE 100 + (CHOOSE i \in 1..Len(Words) : Words[i] = t)
PathKey(f) == << TokKey(f.dir) >> \o [i \in 1..Len(f.tokens) |-> TokKey(f.tokens[i])]

\* sorted(paths) of a set of paths
SortedPaths(hit) ==
    LET keys == SortLex({ PathKey(f) : f \in hit })
    IN  [i \in 1..Len(keys) |-> CHOOSE f \in hit : PathKey(f) = keys[i]]

\* the basename is '<anything>_' followed by the tokens of `suffix`
EndsWith(tokens, suffix) ==
    /\ Len(tokens) > Len(suffix)
    /\ SubSeq(tokens, Len(tokens) - Len(suffix) + 1, Len(tokens)) = suffix

\* sorted(glob.glob(pattern)) with the pattern
\* f'{evaluations_dir}/{eval_date}/*_{eval_date}_<suffix>.csv' when eval_date
\* is set, f'{evaluations_dir}/*/*_<suffix>.csv' otherwise
GlobErrs(tree, ed, suffix) ==
    IF TruthyObj(ed)
    THEN SortedPaths({ f \in DOMAIN tree :
                         /\ f.dir = DateStr[ed[1]]
                         /\ EndsWith(f.tokens, << DateStr[ed[1]] >> \o suffix) })
    ELSE SortedPaths({ f \in DOMAIN tree : EndsWith(f.tokens, suffix) })

\* sorted(glob.glob(pattern)) with the pattern
\* f'{evaluations_dir}/{eval_date}/projections_*_{eval_date}.csv' when
\* eval_date is set, f'{evaluations_dir}/*/projections_*.csv' otherwise
GlobProjections(tree, ed) ==
    IF TruthyObj(ed)
    THEN SortedPaths({ f \in DOMAIN tree :
                         /\ f.dir = DateStr[ed[1]]
                         /\ Len(f.tokens) >= 3
                         /\ f.tokens[1] = "projections"
                         /\ f.tokens[Len(f.tokens)] = DateStr[ed[1]] })
    ELSE SortedPaths({ f \in DOMAIN tree :
                         /\ Len(f.tokens) >= 2
                         /\ f.tokens[1] = "projections" })

\* the glob of one family followed, in weeks-ahead mode, by the horizon filter
Select(globbed, ed, w) ==
    IF TruthyObj(ed) THEN Ok(globbed)
    ELSE filter_fnames_by_weeks_ahead(globbed, w[1])

RECURSIVE LoadCols(_, _, _, _)
\* the loops of lines 87-92, 145-148 and 150-153: parse the name, read the
\* file, store the column under its label.  On an exception `val` is the
\* dict built so far.
LoadCols(tree, fnames, kind, acc) ==
    IF fnames = << >> THEN Ok(acc)
    ELSE LET d == get_dates_from_fname(Head(fnames))
         IN  IF d.err # "" THEN [err |-> d.err, val |-> acc]
             ELSE LoadCols(tree, Tail(fnames), kind,
                           DictSet(acc, Label(kind, d.val),
                                   IF kind = "perc_error"
                                   THEN PercToFloat(tree[Head(fnames)])
                                   ELSE tree[Head(fnames)]))


-----------------------------------------------------------------------------
(* Baseline comparison of one projections file (lines 203-231) *)

\* a column name is prefix + name, e.g. 'error-' + 'YYG-ParamSearch'
Col(prefix, name) == [prefix |-> prefix, name |-> name]
\* the plain names that contain a '-'
DashNames == { "YYG-ParamSearch" }
\* '-' in c
HasDash(c) == c.prefix # "" \/ c.name \in DashNames

\* df_states[df_states.index != 'US']
DropUS(df) == [df EXCEPT !.index = SelectSeq(df.index, LAMBDA st : st # "US")]

\* ['Baseline'] + [c for c in df_states.columns if
\*     ('-' in c and 'error-' not in c and 'beat_baseline-' not in c)]
ModelNames(df) ==
    LET cs == SelectSeq(df.columns, LAMBDA c : /\ HasDash(c)
                                               /\ c.prefix # "error-"
                                               /\ c.prefix # "beat_baseline-")
    IN  << "Baseline" >> \o [i \in 1..Len(cs) |-> cs[i].name]

ColNames(df) == { df.columns[i] : i \in 1..Len(df.columns) }
Cells(df, c) == [i \in 1..Len(df.index) |-> df.val[c][df.index[i]]]

\* (~pd.isnull(df_states)).sum() at column c
NumProjections(df, c) == Len(SelectSeq(Cells(df, c), LAMBDA x : ~IsNone(x)))

\* df_states.abs().sum(min_count=1) at column c: the sum of the absolute
\* values of the non-missing cells, NaN when there is none
AbsSumMin1(df, c) ==
    LET xs == SelectSeq(Cells(df, c), LAMBDA x : ~IsNone(x))
    IN  IF xs = << >> THEN None
        ELSE Some(SumSeq([i \in 1..Len(xs) |-> Abs(xs[i][1])]))

\* a key of col_data: 'num_states' or f'{metric}-{model_name}'
Key(metric, name) == [metric |-> metric, model |-> name]
\* a / b of two numbers, kept as the pair; NaN / b is NaN
Div(a, b) == IF IsNone(a) THEN None ELSE << a[1], b >>

\* (mutation: the mean computed whatever the number of projections)
MeanGateAlways(num_with_projections, num_states) == TRUE
\* the condition of line 227
MeanGate(num_with_projections, num_states) == num_with_projections = num_states

\* one pass of the loop body of lines 215-231; .loc[] of an absent column
\* raises KeyError
ForModel(df, num_states, name, col_data) ==
    LET pcol == Col("", name)
        bcol == Col("beat_baseline-", name)
        ecol == Col("error-", name)
    IN  IF pcol \notin ColNames(df) THEN [err |-> "KeyError", val |-> col_data]
        ELSE
        LET num_with_projections == NumProjections(df, pcol)
            beat ==
              IF name = "Baseline" THEN Ok(col_data)
              ELSE IF bcol \notin ColNames(df) THEN [err |-> "KeyError", val |-> col_data]
              ELSE LET num_beat_baseline == AbsSumMin1(df, bcol)
                   IN  Ok( (Key("num_states_with_projections", name) :> Some(num_with_projections))
                        @@ (Key("num_states_beat_baseline", name) :> num_beat_baseline)
                        @@ (Key("perc_beat_baseline", name) :>
                               Div(num_beat_baseline, num_with_projections))
                        @@ col_data )
        IN  IF beat.err # "" THEN beat
            ELSE IF MeanGate(num_with_projections, num_states)
            THEN IF ecol \notin ColNames(df) THEN [err |-> "KeyError", val |-> beat.val]
                 ELSE Ok( (Key("mean_abs_error", name) :>
                              Div(AbsSumMin1(df, ecol), num_states)) @@ beat.val )
            ELSE Ok( (Key("mean_abs_error", name) :> None) @@ beat.val )

RECURSIVE ForModels(_, _, _, _)
ForModels(df, num_states, names, col_data) ==
    IF names = << >> THEN Ok(col_data)
    ELSE LET r == ForModel(df, num_states, Head(names), col_data)
         IN  IF r.err # "" THEN r
             ELSE ForModels(df, num_states, Tail(names), r.val)

\* lines 201-231 for one file content
ColData(content) ==
    LET df_states == DropUS(content)
        num_states == Len(df_states.index)
    IN  ForModels(df_states, num_states, ModelNames(df_states),
                  Key("num_states", "") :> Some(num_states))


-----------------------------------------------------------------------------
(* main (lines 55-250), one action per stage *)

argv == << eval_date, weeks_ahead, out_dir, fs >>
usv == << us_errs_fnames, col_to_data_us, df_all_us, ranks_us >>
statesv == << states_abs_errs_fnames, states_sq_errs_fnames,
              col_to_data_states, df_all_states, ranks_states >>
basev == << projections_fnames, proj_i, col_to_data >>
callv == << call, ret >>

EmptyDf == [index |-> << >>, columns |-> << >>, val |-> << >>]

Abort(e) == pc' = "abort" /\ error' = e
Goto(l) == pc' = l /\ error' = error

\* lines 68-71: the two assertions, on the truth values of the arguments
ConfigError(ed, w) ==
    IF ~(TruthyObj(ed) \/ TruthyInt(w)) THEN "AssertionError:either"
    ELSE IF TruthyObj(ed) /\ TruthyInt(w) THEN "AssertionError:only-one"
    ELSE ""

\* lines 61-71: os.makedirs(out_dir) comes before the assertions
CheckConfig ==
    /\ pc = "start"
    /\ io' = IF TruthyObj(out_dir) THEN io \cup {"makedirs:out_dir"} ELSE io
    /\ IF ConfigError(eval_date, weeks_ahead) # ""
       THEN Abort(ConfigError(eval_date, weeks_ahead))
       ELSE Goto("us_glob")
    /\ UNCHANGED << argv, usv, statesv, basev, callv >>

\* lines 76-84
GlobUS ==
    /\ pc = "us_glob"
    /\ io' = io \cup {"glob"}
    /\ LET r == Select(GlobErrs(fs, eval_date, << "us", "errs" >>), eval_date, weeks_ahead)
       IN  IF r.err # "" THEN Abort(r.err) /\ UNCHANGED us_errs_fnames
           ELSE /\ us_errs_fnames' = r.val
                /\ IF Len(r.val) > 0 THEN Goto("us_load")
                   ELSE Abort("AssertionError:need-us")
    /\ UNCHANGED << argv, col_to_data_us, df_all_us, ranks_us, statesv, basev, callv >>

\* lines 86-92
LoadUS ==
    /\ pc = "us_load"
    /\ LET r == LoadCols(fs, us_errs_fnames, "perc_error", << >>)
       IN  /\ col_to_data_us' = r.val
           /\ io' = IF Len(r.val) > 0 THEN io \cup {"read"} ELSE io
           /\ IF r.err # "" THEN Abort(r.err) ELSE Goto("us_build")
    /\ UNCHANGED << argv, us_errs_fnames, df_all_us, ranks_us, statesv, basev, callv >>

\* lines 94-96
BuildUS ==
    /\ pc = "us_build"
    /\ df_all_us' = BuildTable(col_to_data_us)
    /\ Goto("us_rank")
    /\ UNCHANGED << argv, io, us_errs_fnames, col_to_data_us, ranks_us,
                    statesv, basev, callv >>

\* lines 98-108
RankUS ==
    /\ pc = "us_rank"
    /\ ranks_us' = FilledRanks(df_all_us)
    /\ \E p \in SortedOrders(df_all_us, ranks_us',
                   RankingWindow(ColsForRanking(df_all_us, "perc_error"), weeks_ahead)) :
          df_all_us' = [df_all_us EXCEPT !.index = p]
    /\ Goto("us_save")
    /\ UNCHANGED << argv, io, us_errs_fnames, col_to_data_us, statesv, basev, callv >>

\* lines 110-122: print, and write the national summary when out_dir is set
SaveUS ==
    /\ pc = "us_save"
    /\ io' = IF TruthyObj(out_dir) THEN io \cup {"to_csv:us"} ELSE io
    /\ Goto("states_glob")
    /\ UNCHANGED << argv, usv, statesv, basev, callv >>

\* lines 127-141
GlobStates ==
    /\ pc = "states_glob"
    /\ io' = io \cup {"glob"}
    /\ LET a == Select(GlobErrs(fs, eval_date, << "states", "abs", "errs" >>),
                       eval_date, weeks_ahead)
           q == Select(GlobErrs(fs, eval_date, << "states", "sq", "errs" >>),
                       eval_date, weeks_ahead)
       IN  IF a.err # "" THEN
                Abort(a.err) /\ UNCHANGED << states_abs_errs_fnames, states_sq_errs_fnames >>
           ELSE IF q.err # "" THEN
                /\ Abort(q.err)
                /\ states_abs_errs_fnames' = a.val
                /\ UNCHANGED states_sq_errs_fnames
           ELSE /\ states_abs_errs_fnames' = a.val
                /\ states_sq_errs_fnames' = q.val
                /\ IF Len(a.val) > 0 /\ Len(q.val) > 0 THEN Goto("states_load")
                   ELSE Abort("AssertionError:need-states")
    /\ UNCHANGED << argv, usv, col_to_data_states, df_all_states, ranks_states,
                    basev, callv >>

\* lines 143-153
LoadStates ==
    /\ pc = "states_load"
    /\ LET a == LoadCols(fs, states_abs_errs_fnames, "mean_abs_error", << >>)
           r == IF a.err # "" THEN a
                ELSE LoadCols(fs, states_sq_errs_fnames, "mean_sq_abs_error", a.val)
       IN  /\ col_to_data_states' = r.val
           /\ io' = IF Len(r.val) > 0 THEN io \cup {"read"} ELSE io
           /\ IF r.err # "" THEN Abort(r.err) ELSE Goto("states_build")
    /\ UNCHANGED << argv, usv, states_abs_errs_fnames, states_sq_errs_fnames,
                    df_all_states, ranks_states, basev, callv >>

\* lines 155-157
BuildStates ==
    /\ pc = "states_build"
    /\ df_all_states' = BuildTable(col_to_data_states)
    /\ Goto("states_rank")
    /\ UNCHANGED << argv, io, usv, states_abs_errs_fnames, states_sq_errs_fnames,
                    col_to_data_states, ranks_states, basev, callv >>

\* lines 159-169
RankStates ==
    /\ pc = "states_rank"
    /\ ranks_states' = FilledRanks(df_all_states)
    /\ \E p \in SortedOrders(df_all_states, ranks_states',
                   RankingWindow(ColsForRanking(df_all_states, "mean_abs_error"),
                                 weeks_ahead)) :
          df_all_states' = [df_all_states EXCEPT !.index = p]
    /\ Goto("states_save")
    /\ UNCHANGED << argv, io, usv, states_abs_errs_fnames, states_sq_errs_fnames,
                    col_to_data_states, basev, callv >>

\* lines 171-183
SaveStates ==
    /\ pc = "states_save"
    /\ io' = IF TruthyObj(out_dir) THEN io \cup {"to_csv:states"} ELSE io
    /\ Goto("proj_glob")
    /\ UNCHANGED << argv, usv, statesv, basev, callv >>

\* lines 188-198
GlobProj ==
    /\ pc = "proj_glob"
    /\ io' = io \cup {"glob"}
    /\ LET r == Select(GlobProjections(fs, eval_date), eval_date, weeks_ahead)
       IN  IF r.err # "" THEN Abort(r.err) /\ UNCHANGED projections_fnames
           ELSE /\ projections_fnames' = r.val
                /\ IF Len(r.val) > 0 THEN Goto("baseline_loop")
                   ELSE Abort("AssertionError:need-projections")
    /\ proj_i' = 1
    /\ col_to_data' = << >>
    /\ UNCHANGED << argv, usv, statesv, callv >>

\* lines 199-233: one pass of the loop over projections_fnames
BaselineFile ==
    /\ pc = "baseline_loop"
    /\ proj_i <= Len(projections_fnames)
    /\ LET fname == projections_fnames[proj_i]
           d == get_dates_from_fname(fname)
       IN  IF d.err # "" THEN Abort(d.err) /\ UNCHANGED << io, proj_i, col_to_data >>
           ELSE /\ io' = io \cup {"read"}
                /\ LET r == ColData(fs[fname])
                   IN  IF r.err # "" THEN Abort(r.err) /\ UNCHANGED << proj_i, col_to_data >>
                       ELSE /\ col_to_data' =
                                 DictSet(col_to_data,
                                         [proj_date |-> d.val.proj_date,
                                          eval_date |-> d.val.eval_date], r.val)
                            /\ proj_i' = proj_i + 1
                            /\ Goto("baseline_loop")
    /\ UNCHANGED << argv, usv, statesv, projections_fnames, callv >>

\* lines 235-250: the summary frame is col_to_data with its rows put in the
\* fixed category order; written when out_dir is set
BaselineSave ==
    /\ pc = "baseline_loop"
    /\ proj_i > Len(projections_fnames)
    /\ io' = IF TruthyObj(out_dir)
             THEN io \cup {"makedirs:baseline_comparison", "to_csv:baseline"}
             ELSE io
    /\ Goto("done")
    /\ UNCHANGED << argv, usv, statesv, basev, callv >>


\* main, start to end
Next ==
    \/ CheckConfig
    \/ GlobUS \/ LoadUS \/ BuildUS \/ RankUS \/ SaveUS
    \/ GlobStates \/ LoadStates \/ BuildStates \/ RankStates \/ SaveStates
    \/ GlobProj \/ BaselineFile \/ BaselineSave

-----------------------------------------------------------------------------
(* Direct calls of the two helper functions *)

Pending == [err |-> "pending", val |-> << >>]

CallGetDates ==
    /\ pc = "call"
    /\ call.fn = "get_dates_from_fname"
    /\ ret' = get_dates_from_fname(call.fname)
    /\ pc' = "returned"
    /\ UNCHANGED << argv, io, error, usv, statesv, basev, call >>

CallFilter ==
    /\ pc = "call"
    /\ call.fn = "filter_fnames_by_weeks_ahead"
    /\ ret' = filter_fnames_by_weeks_ahead(call.fnames, call.weeks_ahead)
    /\ pc' = "returned"
    /\ UNCHANGED << argv, io, error, usv, statesv, basev, call >>

NextCalls == CallGetDates \/ CallFilter

-----------------------------------------------------------------------------
(* Initial states *)

Path(dir, tokens) == [dir |-> dir, tokens |-> tokens]

\* the state of main's locals before they are assigned
LocalsUnset ==
    /\ io = {}
    /\ error = ""
    /\ us_errs_fnames = << >> /\ col_to_data_us = << >>
    /\ df_all_us = EmptyDf /\ ranks_us = << >>
    /\ states_abs_errs_fnames = << >> /\ states_sq_errs_fnames = << >>
    /\ col_to_data_states = << >>
    /\ df_all_states = EmptyDf /\ ranks_states = << >>
    /\ projections_fnames = << >> /\ proj_i = 1 /\ col_to_data = << >>

\* contents of error files (index -> cell); national cells are percentages
Series(i) ==
    CASE i = 1 -> ("A" :> Some(10)) @@ ("B" :> Some(5))
      [] i = 2 -> ("A" :> Some(20)) @@ ("B" :> Some(1))
      [] i = 3 -> ("A" :> Some(-20)) @@ ("C" :> Some(20))
      [] i = 4 -> ("A" :> None) @@ ("B" :> None)
      [] i = 5 -> ("B" :> Some(7)) @@ ("C" :> Some(2))
      [] i = 6 -> ("A" :> Some(5)) @@ ("B" :> Some(-5)) @@ ("C" :> Some(5))

\* contents of projections files: a row per state, cells in column order
\* Baseline, error-Baseline, YYG-ParamSearch, error-YYG-ParamSearch,
\* beat_baseline-YYG-ParamSearch
M1 == "YYG-ParamSearch"
ProjCols(with_beat, with_error) ==
    << Col("", "actual"), Col("", "Baseline"), Col("error-", "Baseline"), Col("", M1) >>
    \o (IF with_error THEN << Col("error-", M1) >> ELSE << >>)
    \o (IF with_beat THEN << Col("beat_baseline-", M1) >> ELSE << >>)

Row(b, eb, m, em, beat) ==
    (Col("", "actual") :> Some(100))
    @@ (Col("", "Baseline") :> b) @@ (Col("error-", "Baseline") :> eb)
    @@ (Col("", M1) :> m) @@ (Col("error-", M1) :> em)
    @@ (Col("beat_baseline-", M1) :> beat)

RowPattern(i) ==
    CASE i = 1 -> Row(Some(98), Some(-2), Some(101), Some(1), Some(1))
      [] i = 2 -> Row(Some(103), Some(3), None, None, None)
      [] i = 3 -> Row(Some(102), Some(2), Some(97), Some(-3), Some(0))
      [] i = 4 -> Row(None, None, Some(102), Some(2), None)
      [] i = 5 -> Row(Some(99), Some(-1), Some(104), None, None)
      [] i = 6 -> Row(Some(101), Some(1), Some(100), Some(0), Some(1))
RowPatternIds == 1..6

StateNames == << "AK", "AL", "AR", "AZ", "CA", "CO" >>

\* a projections frame: the US row (optional) then one row per pattern
ProjFrame(with_us, pats, with_beat, with_error) ==
    LET idx == (IF with_us THEN << "US" >> ELSE << >>)
               \o [i \in 1..Len(pats) |-> StateNames[i]]
        cols == ProjCols(with_beat, with_error)
        rowOf(st) == IF st = "US" THEN RowPattern(1)
                     ELSE RowPattern(pats[CHOOSE i \in 1..Len(pats) : StateNames[i] = st])
    IN  [ index |-> idx, columns |-> cols,
          val |-> [c \in { cols[i] : i \in 1..Len(cols) } |->
                     [st \in { idx[i] : i \in 1..Len(idx) } |-> rowOf(st)[c]]] ]


\* files every drawn tree of the configuration runs is made of
D9 == "2020-11-09"
GoodProj == ProjFrame(TRUE, << 1, 3 >>, TRUE, TRUE)
MainContent ==
       (Path(D9, << "2020-11-02", D9, "us", "errs" >>) :> Series(1))
    @@ (Path(D9, << "2020-11-01", D9, "us", "errs" >>) :> Series(2))
    @@ (Path(D9, << "x", D9, "us", "errs" >>) :> Series(1))
    @@ (Path(D9, << "2020-11-10", D9, "us", "errs" >>) :> Series(1))
    @@ (Path(D9, << "2020-11-02", D9, "states", "abs", "errs" >>) :> Series(1))
    @@ (Path(D9, << "x", D9, "states", "abs", "errs" >>) :> Series(1))
    @@ (Path(D9, << "2020-11-02", D9, "states", "sq", "errs" >>) :> Series(5))
    @@ (Path(D9, << "projections", "2020-11-02", D9 >>) :> GoodProj)
    @@ (Path(D9, << "projections", "2020-11-10", D9 >>) :> GoodProj)
\* a file of another horizon, always there
FarContent ==
    Path("2020-11-20", << "2020-11-01", "2020-11-20", "us", "errs" >>) :> Series(3)

Restrict(f, S) == [x \in S |-> f[x]]

\* main called with any combination of the mode options, on any sub-tree
Init ==
    /\ pc = "start"
    /\ LocalsUnset
    /\ call = << >> /\ ret = Pending
    /\ eval_date \in { None, Some(str_to_date(D9).val) }
    /\ weeks_ahead \in { None, Some(0), Some(1) }
    /\ out_dir \in { None, Some("out") }
    /\ \E S \in SUBSET DOMAIN MainContent : fs = Restrict(MainContent, S) @@ FarContent

Spec == Init /\ [][Next]_vars


\* --- direct calls: names and lists drawn from bounded sets ---

Days == 1..MaxDay
\* basenames of one, two or three tokens, each a date or the word "x"
DrawnTokens == { DateStr[d] : d \in Days } \cup { "x" }
DrawnNames ==
    { Path("x", t) : t \in UNION { [1..n -> DrawnTokens] : n \in 1..3 } }
\* names given to the filter: layout A from day 1 to every day, one of
\* layout B, one that parses under neither
FilterNames ==
    { Path("x", << DateStr[1], DateStr[e], "us", "errs" >>) : e \in Days }
    \cup { Path("x", << "projections", DateStr[2], DateStr[MaxDay] >>),
           Path("x", << "x", "us", "errs" >>) }

InitCalls ==
    /\ pc = "call"
    /\ LocalsUnset
    /\ eval_date = None /\ weeks_ahead = None /\ out_dir = None
    /\ fs = << >>
    /\ ret = Pending
    /\ \/ \E f \in DrawnNames : call = [fn |-> "get_dates_from_fname", fname |-> f]
       \/ \E n \in 0..MaxFiles : \E l \in [1..n -> FilterNames] : \E w \in 0..MaxWeeks :
            call = [fn |-> "filter_fnames_by_weeks_ahead", fnames |-> l, weeks_ahead |-> w]

SpecCalls == InitCalls /\ [][NextCalls]_vars

\* --- main on trees that vary the contents of the error files ---

D20 == "2020-11-20"
\* file i of a family: projection date i; evaluation date D20 in exact-date
\* mode, a week later in weeks-ahead mode.  With `last`, file 1 is named or
\* placed so that its path sorts after the others.
TableFile(i, exact, last, suffix) ==
    LET ev == IF exact THEN D20 ELSE DateStr[i + 7]
    IN  Path(IF last /\ i = 1 /\ ~exact THEN "x" ELSE ev,
             (IF last /\ i = 1 /\ exact THEN << "x" >> ELSE << >>)
             \o << DateStr[i], ev >> \o suffix)

TableTree(n, pats, exact, last) ==
    LET us == { TableFile(i, exact, last, << "us", "errs" >>) : i \in 1..n }
        ab == { TableFile(i, exact, last, << "states", "abs", "errs" >>) : i \in 1..n }
        sq == TableFile(1, exact, FALSE, << "states", "sq", "errs" >>)
        pj == Path(IF exact THEN D20 ELSE DateStr[8],
                   << "projections", DateStr[1], IF exact THEN D20 ELSE DateStr[8] >>)
        num(f) == CHOOSE i \in 1..n : \E su \in { << "us", "errs" >>, << "states", "abs", "errs" >> } :
                                         f = TableFile(i, exact, last, su)
    IN  [f \in us \cup ab |-> Series(pats[num(f)])]
        @@ (sq :> Series(5)) @@ (pj :> GoodProj)

InitTables ==
    /\ pc = "start"
    /\ LocalsUnset
    /\ call = << >> /\ ret = Pending
    /\ out_dir = Some("out")
    /\ \E exact \in BOOLEAN, last \in BOOLEAN : \E n \in 1..MaxCols :
       \E head \in [1..Min2(n, RichCols) -> 1..4] : \E rest \in {3, 6} :
          /\ n <= RichCols => rest = 3
          /\ n > RichCols => ~last
          /\ eval_date = IF exact THEN Some(str_to_date(D20).val) ELSE None
          /\ weeks_ahead = IF exact THEN None ELSE Some(1)
          /\ fs = TableTree(n, [i \in 1..n |-> IF i <= RichCols THEN head[i] ELSE rest],
                            exact, last)

SpecTables == InitTables /\ [][Next]_vars

\* --- main on trees that vary the contents of the projections file ---

InitBaseline ==
    /\ pc = "start"
    /\ LocalsUnset
    /\ call = << >> /\ ret = Pending
    /\ out_dir = Some("out")
    /\ eval_date = Some(str_to_date(D9).val)
    /\ weeks_ahead = None
    /\ \E with_us \in BOOLEAN, with_beat \in BOOLEAN, with_error \in BOOLEAN :
       \E n \in 0..MaxStates : \E pats \in [1..n -> RowPatternIds] :
          fs = (Path(D9, << "2020-11-02", D9, "us", "errs" >>) :> Series(1))
            @@ (Path(D9, << "2020-11-02", D9, "states", "abs", "errs" >>) :> Series(1))
            @@ (Path(D9, << "2020-11-02", D9, "states", "sq", "errs" >>) :> Series(5))
            @@ (Path(D9, << "projections", "2020-11-02", D9 >>) :>
                    ProjFrame(with_us, pats, with_beat, with_error))

SpecBaseline == InitBaseline /\ [][Next]_vars


-----------------------------------------------------------------------------
(* Properties *)

ConfigErrors == { "AssertionError:either", "AssertionError:only-one" }
Supplied(x) == x # None
Summaries == { "to_csv:us", "to_csv:states", "to_csv:baseline" }

\* C1: the configuration check passes if and only if exactly one of
\* eval_date and weeks_ahead is supplied, a supplied weeks_ahead being any
\* integer >= 0 (0 included).
C1_CheckPassesIffExactlyOne ==
    pc # "start" =>
        ((error \notin ConfigErrors) <=> (Supplied(eval_date) # Supplied(weeks_ahead)))

\* C2: a configuration error is raised before any file-system I/O: no
\* directory created, nothing globbed, read or written.
C2_ConfigErrorBeforeIO ==
    error \in ConfigErrors => io = {}

\* zero matching files of a family, a malformed file name, dates out of order
FatalErrors == { "AssertionError:need-us", "AssertionError:need-states",
                 "AssertionError:need-projections",
                 "ValueError", "IndexError", "AssertionError" }

\* C3: with an out_dir, a run that aborts with a fatal error (no matching
\* file of a family, a malformed name, dates out of order) has written no
\* summary file: a run writes all three summaries or none.
C3_AbortWritesNoSummary ==
    /\ (pc = "abort" /\ error \in FatalErrors /\ TruthyObj(out_dir)) =>
           io \cap Summaries = {}
    /\ (pc = "done" /\ TruthyObj(out_dir)) => Summaries \subseteq io

\* --- the helper functions ---

IsDateStr(t) == \E d \in 1..Len(DateStr) : DateStr[d] = t
DayOf(t) == CHOOSE d \in 1..Len(DateStr) : DateStr[d] = t
Returned(fn) == pc = "returned" /\ call.fn = fn

\* C4: filter_fnames_by_weeks_ahead returns exactly the sub-list of the
\* files with |days_ahead - 7*weeks_ahead| <= 3, in the original order
\* (offsets 0 and 3 kept, 4 and more excluded, nothing duplicated or
\* reordered); it returns whenever every name parses.
C4_FilterKeepsExactlyWithinThree ==
    Returned("filter_fnames_by_weeks_ahead") =>
        LET OffBy(f) == LET d == get_dates_from_fname(f).val
                        IN  (d.eval_date - d.proj_date) - 7 * call.weeks_ahead
            parses == \A i \in 1..Len(call.fnames) :
                          get_dates_from_fname(call.fnames[i]).err = ""
        IN  /\ (ret.err = "") <=> parses
            /\ ret.err = "" =>
                 ret.val = SelectSeq(call.fnames,
                                     LAMBDA f : OffBy(f) >= -3 /\ OffBy(f) <= 3)

\* C4 witness: a returned list that kept a file at offset 3 and one at
\* offset 0 and left out a file at offset 4
C4_Witness ==
    /\ Returned("filter_fnames_by_weeks_ahead")
    /\ ret.err = ""
    /\ Len(call.fnames) = 3 /\ Len(ret.val) = 2
    /\ LET off(f) == (DayOf(f.tokens[2]) - DayOf(f.tokens[1])) - 7 * call.weeks_ahead
       IN  /\ Len(call.fnames[1].tokens) = 4 /\ off(call.fnames[1]) = 3
           /\ Len(call.fnames[2].tokens) = 4 /\ off(call.fnames[2]) = 4
           /\ Len(call.fnames[3].tokens) = 4 /\ off(call.fnames[3]) = 0
           /\ ret.val = << call.fnames[1], call.fnames[3] >>

\* C5: get_dates_from_fname takes layout A (tokens 0 and 1) first and
\* layout B (tokens 1 and 2) only when a token of layout A is not a date;
\* it returns only pairs with evaluation_date > projection_date, and raises
\* when the dates are out of order or when neither layout parses.
C5_LayoutAThenBAndDateOrder ==
    Returned("get_dates_from_fname") =>
        LET t == call.fname.tokens
            isd(k) == k <= Len(t) /\ IsDateStr(t[k])
            aFails == ~isd(1) \/ (Len(t) >= 2 /\ ~isd(2))
        IN  /\ ret.err = "" => ret.val.eval_date > ret.val.proj_date
            /\ IF isd(1) /\ isd(2)
               THEN IF DayOf(t[2]) > DayOf(t[1])
                    THEN ret = Ok([proj_date |-> DayOf(t[1]), eval_date |-> DayOf(t[2])])
                    ELSE ret.err # ""
               ELSE IF aFails /\ isd(2) /\ isd(3)
               THEN IF DayOf(t[3]) > DayOf(t[2])
                    THEN ret = Ok([proj_date |-> DayOf(t[2]), eval_date |-> DayOf(t[3])])
                    ELSE ret.err # ""
               ELSE ret.err # ""

\* C5 witness: a name that fails layout A and is returned under layout B
C5_Witness ==
    /\ Returned("get_dates_from_fname")
    /\ ret.err = ""
    /\ call.fname.tokens[1] = "x"
    /\ ret.val.proj_date = DayOf(call.fname.tokens[2])


\* --- the wide tables ---

\* the table has been ranked and reordered (lines 100-108 / 161-169 done)
Ranked(ranks) == DOMAIN ranks # {}

Observed(df, c) == { m \in RowSet(df) : df.val[c][m] # None }
\* twice the averaged rank of an observed |value| within its column
ObservedRank2(df, c, m) ==
    2 * Cardinality({ x \in Observed(df, c) : Abs(df.val[c][x][1]) < Abs(df.val[c][m][1]) })
    + Cardinality({ x \in Observed(df, c) : Abs(df.val[c][x][1]) = Abs(df.val[c][m][1]) })
    + 1
WorstObservedRank2(df, c) ==
    CHOOSE r \in { ObservedRank2(df, c, m) : m \in Observed(df, c) } :
        \A m \in Observed(df, c) : ObservedRank2(df, c, m) <= r
\* twice the rank a model counts with in a column that has a value
CountedRank2(df, c, m) ==
    IF m \in Observed(df, c) THEN ObservedRank2(df, c, m)
    ELSE WorstObservedRank2(df, c) + 2

\* the ranking window: every ranking column in weeks-ahead mode, the last
\* 6 of them in sorted label order in exact-date mode
WindowOf(df, kind) ==
    LET rc == SelectSeq(df.columns, LAMBDA c : c.kind = kind)
    IN  IF eval_date = None THEN { rc[k] : k \in 1..Len(rc) }
        ELSE { rc[k] : k \in { j \in 1..Len(rc) : j > Len(rc) - 6 } }

\* twice the sum of a row's ranks over the columns of W that have a value
\* (the same columns for every row, so sums order as means do)
RECURSIVE RankSumOver(_, _, _)
RankSumOver(df, S, m) ==
    IF S = {} THEN 0
    ELSE LET c == CHOOSE y \in S : TRUE
         IN  CountedRank2(df, c, m) + RankSumOver(df, S \ {c}, m)
RankSum2(df, W, m) == RankSumOver(df, { c \in W : Observed(df, c) # {} }, m)

AscendingByMeanRank(df, kind) ==
    \A i, j \in 1..Len(df.index) :
        i < j => RankSum2(df, WindowOf(df, kind), df.index[i])
                 <= RankSum2(df, WindowOf(df, kind), df.index[j])

\* the table of the example: A = 0.10, 0.20 and B = 0.05, 0.01
IsExample(df) ==
    /\ Len(df.columns) = 2
    /\ RowSet(df) = { "A", "B" }
    /\ df.val[df.columns[1]]["A"] = Some(10) /\ df.val[df.columns[2]]["A"] = Some(20)
    /\ df.val[df.columns[1]]["B"] = Some(5) /\ df.val[df.columns[2]]["B"] = Some(1)

\* C6: after the final reorder the rows of the national and of the state
\* table are in ascending order of mean rank over the ranking window (all
\* ranking columns in weeks-ahead mode, the last 6 in exact-date mode); in
\* the example B comes first.
C6_RowsAscendingByMeanRank ==
    /\ Ranked(ranks_us) =>
          /\ AscendingByMeanRank(df_all_us, "perc_error")
          /\ IsExample(df_all_us) => df_all_us.index = << "B", "A" >>
    /\ Ranked(ranks_states) => AscendingByMeanRank(df_all_states, "mean_abs_error")

\* C6 witness: exact-date mode, more than 6 ranking columns, and a final
\* order that the mean over all the columns would not give
C6_Witness ==
    /\ Ranked(ranks_us)
    /\ eval_date # None
    /\ Len(df_all_us.columns) > 6
    /\ Len(df_all_us.index) >= 2
    /\ RankSum2(df_all_us, ColSet(df_all_us), df_all_us.index[1])
         > RankSum2(df_all_us, ColSet(df_all_us), df_all_us.index[2])

FillIsWorstPlusOne(df, ranks) ==
    \A c \in ColSet(df) : \A m \in RowSet(df) :
        (Observed(df, c) # {} /\ m \notin Observed(df, c)) =>
            /\ ranks[c][m] = Some(WorstObservedRank2(df, c) + 2)
            /\ \A x \in Observed(df, c) : ranks[c][m][1] > ranks[c][x][1]

\* C9: in the rank matrix, in every column that has a value, a model
\* missing from the column gets (maximum observed rank) + 1, strictly above
\* every observed rank, also when the worst observed models are tied.
C9_MissingRankedWorstPlusOne ==
    /\ Ranked(ranks_us) => FillIsWorstPlusOne(df_all_us, ranks_us)
    /\ Ranked(ranks_states) => FillIsWorstPlusOne(df_all_states, ranks_states)

\* C9 witness: a column whose two worst observed models are tied and from
\* which a third model is missing
C9_Witness ==
    /\ Ranked(ranks_us)
    /\ \E c \in ColSet(df_all_us) : \E m, x, y \in RowSet(df_all_us) :
          /\ m \notin Observed(df_all_us, c)
          /\ x # y /\ x \in Observed(df_all_us, c) /\ y \in Observed(df_all_us, c)
          /\ ranks_us[c][x] = ranks_us[c][y]
          /\ ranks_us[c][x] = Some(WorstObservedRank2(df_all_us, c))
          /\ ranks_us[c][m] = Some(ranks_us[c][x][1] + 2)

\* the table as printed or written: built from the dict d of loaded columns
WideTableOk(df, d) ==
    LET labels == { d[i].key : i \in 1..Len(d) }
        valueOf(c, m) == LET i == CHOOSE k \in 1..Len(d) : d[k].key = c
                         IN  IF m \in DOMAIN d[i].value THEN d[i].value[m] ELSE None
        withValue == { m \in Models : \E c \in labels : valueOf(c, m) # None }
    IN  \* columns: the loaded labels, each once, in sorted label order
        /\ ColSet(df) = labels
        /\ \A i, j \in 1..Len(df.columns) :
               i < j => LexLess(LabelKey(df.columns[i]), LabelKey(df.columns[j]))
        \* rows: the models with a value, each once
        /\ RowSet(df) = withValue
        /\ Len(df.index) = Cardinality(withValue)
        /\ \A m \in RowSet(df) : \E c \in ColSet(df) : df.val[c][m] # None
        \* cells: as loaded
        /\ \A c \in ColSet(df) : \A m \in RowSet(df) : df.val[c][m] = valueOf(c, m)

StateRows(content) == { content.index[i] : i \in 1..Len(content.index) } \ { "US" }
HasColumn(content, c) == \E i \in 1..Len(content.columns) : content.columns[i] = c
\* the states with a value in column c
WithValue(content, c) == { st \in StateRows(content) : content.val[c][st] # None }

RECURSIVE SignedSum(_, _, _)
SignedSum(content, c, S) ==
    IF S = {} THEN 0
    ELSE LET st == CHOOSE x \in S : TRUE
         IN  content.val[c][st][1] + SignedSum(content, c, S \ {st})

RECURSIVE MagnitudeSum(_, _, _)
MagnitudeSum(content, c, S) ==
    IF S = {} THEN 0
    ELSE LET st == CHOOSE x \in S : TRUE
         IN  Abs(content.val[c][st][1]) + MagnitudeSum(content, c, S \ {st})

\* the models of a projections file of the drawn trees
FileModels == { "Baseline", M1 }

\* the entries col_to_data[i] were computed from file projections_fnames[i]
\* (the drawn trees give every projections file its own pair of dates)
MeanEntries(Expected(_, _)) ==
    \A i \in 1..Len(col_to_data) :
        LET content == fs[projections_fnames[i]]
            col_data == col_to_data[i].value
        IN  \A name \in FileModels :
                /\ Key("mean_abs_error", name) \in DOMAIN col_data
                /\ col_data[Key("mean_abs_error", name)] = Expected(content, name)

Gated(content, name) ==
    Cardinality(WithValue(content, Col("", name))) # Cardinality(StateRows(content))

\* C7 as stated: mean_abs_error-<model> is missing when the model's count
\* of non-missing projections differs from num_states, and otherwise is
\* (sum of the error-<model> column) / num_states.
C7_MeanIsSumOverNumStates ==
    MeanEntries(LAMBDA content, name :
        IF Gated(content, name) THEN None
        ELSE << SignedSum(content, Col("error-", name),
                          WithValue(content, Col("error-", name))),
                Cardinality(StateRows(content)) >>)

\* C7 amended: mean_abs_error-<model> is missing when the model's count of
\* non-missing projections differs from num_states; otherwise it is (sum of
\* the absolute values of the non-missing error-<model> entries) /
\* num_states, and missing when the column has no non-missing entry.
C7_MeanIsAbsSumOverNumStates ==
    MeanEntries(LAMBDA content, name :
        IF Gated(content, name) THEN None
        ELSE IF WithValue(content, Col("error-", name)) = {} THEN None
        ELSE << MagnitudeSum(content, Col("error-", name),
                             WithValue(content, Col("error-", name))),
                Cardinality(StateRows(content)) >>)

\* C7 witness: one file in which a model lacks a projection for one state
\* and has no mean, and another model has them all and a mean over errors
\* of both signs
C7_Witness ==
    /\ Len(col_to_data) = 1
    /\ LET content == fs[projections_fnames[1]]
           col_data == col_to_data[1].value
       IN  /\ Cardinality(StateRows(content)) >= 2
           /\ Cardinality(WithValue(content, Col("", M1)))
                = Cardinality(StateRows(content)) - 1
           /\ col_data[Key("mean_abs_error", M1)] = None
           /\ col_data[Key("mean_abs_error", "Baseline")] # None
           /\ \E a, b \in StateRows(content) :
                 /\ content.val[Col("error-", "Baseline")][a] # None
                 /\ content.val[Col("error-", "Baseline")][b] # None
                 /\ content.val[Col("error-", "Baseline")][a][1] < 0
                 /\ content.val[Col("error-", "Baseline")][b][1] > 0

\* the first projections file has been through the loop body
FirstFileProcessed ==
    \/ pc = "done"
    \/ pc = "baseline_loop" /\ proj_i > 1
    \/ pc = "abort" /\ error = "KeyError"

\* C8: for a non-Baseline model, if the beat_baseline-<model> column is
\* absent or has no non-missing entry, num_states_beat_baseline-<model> and
\* perc_beat_baseline-<model> are reported missing and the run does not
\* abort; otherwise perc_beat_baseline = num_beat_baseline /
\* num_with_projections.  (Stated for files that have the model's error
\* column.)
C8_BeatMissingReportedNotFatal ==
    (FirstFileProcessed /\ HasColumn(fs[projections_fnames[1]], Col("error-", M1))) =>
        LET content == fs[projections_fnames[1]]
            bcol == Col("beat_baseline-", M1)
        IN  /\ error # "KeyError"
            /\ Len(col_to_data) >= 1
            /\ LET col_data == col_to_data[1].value
               IN  IF ~HasColumn(content, bcol) \/ WithValue(content, bcol) = {}
                   THEN /\ col_data[Key("num_states_beat_baseline", M1)] = None
                        /\ col_data[Key("perc_beat_baseline", M1)] = None
                   ELSE col_data[Key("perc_beat_baseline", M1)] =
                          << MagnitudeSum(content, bcol, WithValue(content, bcol)),
                             Cardinality(WithValue(content, Col("", M1))) >>


====
